---- MODULE Spec2Model ----
(***************************************************************************)
(* Risk governor, durable snapshot and the periodic tasks of the trading   *)
(* daemon (src/src/risk.rs, src/src/state.rs, src/src/main.rs).            *)
(*                                                                         *)
(* Amounts are integers: USDC amounts in whole USDC, prices in hundredths  *)
(* of the quote asset, fractions in whole percent.  Every comparison the   *)
(* code makes on f64 values is made here on the same quantities multiplied *)
(* out to integers, so the model is exact where the code rounds.           *)
(*                                                                         *)
(* The price feed, the swap path, the file system and the clock are the    *)
(* environment: each call returns any of its outcomes.  The loops run on   *)
(* a multi-threaded runtime, so a tick is a sequence of steps (its load,   *)
(* each external call with what the code does on its result, its save)     *)
(* that interleave with the other loops' steps.  Alerts and journal lines  *)
(* are fire-and-forget and change no state; the heartbeat loop touches     *)
(* neither the snapshot nor the risk state and is left out.                *)
(***************************************************************************)
EXTENDS Integers, Sequences, FiniteSets, TLC

VARIABLES
    \* ---- a RiskState driven directly (SpecRisk) ----
    rs,          \* the RiskState under test
    rRegs,       \* number of registrations made so far (bounded)
    rHardHit,    \* history: some registration left drawdown <= -hard stop
    rDailyHit,   \* history: some registration of the current day key left
                 \* daily.realized_pnl <= -limit
    rBook,       \* history: the starting balance rs was created with, the
                 \* sum of every pnl registered since, and the RiskState the
                 \* registrations started from
    \* ---- a StateStore driven directly (SpecStore) ----
    sSnap,       \* the PersistedState the caller holds
    sFile,       \* the file at the store's path, as JSON text
    sRes,        \* what the last load returned
    \* ---- the daemon (Spec, SpecCrash) ----
    today,       \* the day key crate::time::day_key returns now
    disk,        \* the snapshot file at cfg.state_path
    hSt,         \* main's `st`: loaded at boot, kept by the housekeeping loop
    pPc,         \* positions loop: "idle" | "liq" | "mon"
    pSt,         \* positions loop: the `st` of the running tick
    pIdx,        \* positions loop: `idx` / `i` (1-based)
    pClosedAny,  \* positions loop: `closed_any`
    mPc,         \* market loop: "idle" | "loaded"
    mSt,         \* market loop: the `st` of the running tick
    alive,       \* the process is running
    \* ---- history variables ----
    ev,          \* what the last step did
    pTick,       \* the running positions tick: the mode it loaded, the ids it
                 \* closed and failed to close, the ids whose price it looked
                 \* up and those whose lookup failed and, while it liquidates,
                 \* the positions it loaded and the closes it has submitted;
                 \* between ticks, the snapshot the last tick wrote and
                 \* the mode that tick had loaded; over all ticks, the ids
                 \* whose exit swap or liquidation close has succeeded
    soldSaved,   \* ids whose exit swap succeeded in a tick that then saved
    stale        \* per task: another task saved after this task's copy was taken

riskVars == <<rs, rRegs, rHardHit, rDailyHit, rBook>>
storeVars == <<sSnap, sFile, sRes>>
taskVars == <<today, disk, hSt, pPc, pSt, pIdx, pClosedAny, mPc, mSt, alive>>
vars == <<rs, rRegs, rHardHit, rDailyHit, rBook, sSnap, sFile, sRes,
          today, disk, hSt, pPc, pSt, pIdx, pClosedAny, mPc, mSt, alive,
          ev, pTick, soldSaved, stale>>

----------------------------------------------------------------------------
\* Bounds of the model.
MaxRegs == 4          \* registrations in one SpecRisk behaviour
MaxDay == 2           \* the last day key the clock reaches
MaxPositions == 2     \* open positions in the initial snapshot

\* RiskParams (src/src/risk.rs:4-19), the values of the spec's examples.
CapitalUsdc == 200
MaxDailyLossPct == 3
PortfolioHardStopPct == 20
StopLossPct == 10
TakeProfitPct == 40
TrailingArmPct == 15
PositionSizeUsdc == 20
MaxOpenPositions == 3
EntryPrice == 100

Modes == {"Trading", "ReadOnly", "EmergencyStop"}

\* Realized P&L amounts registered in SpecRisk, and the starting balances a
\* RiskState is created with there.
PnlInputs == {-45, -6, -2, 1, 8, 10}
StartingBalances == {CapitalUsdc, 150}

----------------------------------------------------------------------------
\* src/src/risk.rs

\* RiskState::new
RiskStateNew(day_key, starting_balance_usdc) ==
    [mode |-> "Trading",
     day_key |-> day_key,
     realized_pnl_usdc |-> 0,
     starting_balance_usdc |-> starting_balance_usdc,
     current_balance_usdc |-> starting_balance_usdc]

\* A rollover that also puts the mode back to Trading (mutant).
RolloverRearming(r, new_day_key) ==
    IF r.day_key # new_day_key
    THEN [r EXCEPT !.day_key = new_day_key, !.realized_pnl_usdc = 0,
                   !.mode = "Trading"]
    ELSE r

\* A rollover that also starts the balance afresh (mutant).
RolloverResettingBalance(r, new_day_key) ==
    IF r.day_key # new_day_key
    THEN [r EXCEPT !.day_key = new_day_key, !.realized_pnl_usdc = 0,
                   !.current_balance_usdc = r.starting_balance_usdc]
    ELSE r

\* RiskState::rollover_day_if_needed
RolloverDayIfNeeded(r, new_day_key) ==
    IF r.day_key # new_day_key
    THEN [r EXCEPT !.day_key = new_day_key, !.realized_pnl_usdc = 0]
    ELSE r

\* daily.realized_pnl_usdc <= -max_daily_loss_pct * capital_usdc
DailyLossBreached(realized) ==
    realized * 100 <= -(MaxDailyLossPct * CapitalUsdc)

\* (current - starting) / starting <= -portfolio_hard_stop_pct, starting > 0
HardStopBreached(current, starting) ==
    (current - starting) * 100 <= -(PortfolioHardStopPct * starting)

\* An event decided by the mode after the call alone (mutant).
RiskEventOfLevel(prev_mode, mode) ==
    IF mode = "ReadOnly" THEN "EnterReadOnly"
    ELSE IF mode = "EmergencyStop" THEN "EnterEmergencyStop"
         ELSE "None"

\* The RiskEvent of the final match of register_realized_pnl.
RiskEventOf(prev_mode, mode) ==
    IF prev_mode = "Trading" /\ mode = "ReadOnly" THEN "EnterReadOnly"
    ELSE IF mode = "EmergencyStop" /\ prev_mode # "EmergencyStop"
         THEN "EnterEmergencyStop"
         ELSE "None"

\* A register_realized_pnl that recomputes the mode from the limits on every
\* call (mutant).
RegisterRecomputingMode(r, pnl_usdc) ==
    LET daily == r.realized_pnl_usdc + pnl_usdc
        cur == r.current_balance_usdc + pnl_usdc
        m == IF HardStopBreached(cur, r.starting_balance_usdc) THEN "EmergencyStop"
             ELSE IF DailyLossBreached(daily) THEN "ReadOnly" ELSE "Trading"
    IN [risk |-> [r EXCEPT !.realized_pnl_usdc = daily,
                           !.current_balance_usdc = cur,
                           !.mode = m],
        event |-> RiskEventOf(r.mode, m)]

\* A register_realized_pnl that tests the hard stop before the daily limit,
\* so that ReadOnly is assigned last (mutant).
RegisterHardStopFirst(r, pnl_usdc) ==
    LET daily == r.realized_pnl_usdc + pnl_usdc
        cur == r.current_balance_usdc + pnl_usdc
        m1 == IF HardStopBreached(cur, r.starting_balance_usdc)
              THEN "EmergencyStop" ELSE r.mode
        m2 == IF DailyLossBreached(daily) THEN "ReadOnly" ELSE m1
    IN [risk |-> [r EXCEPT !.realized_pnl_usdc = daily,
                           !.current_balance_usdc = cur,
                           !.mode = m2],
        event |-> RiskEventOf(r.mode, m2)]

\* A register_realized_pnl that holds each amount alone against the limits
\* (mutant).
RegisterPerTrade(r, pnl_usdc) ==
    LET daily == r.realized_pnl_usdc + pnl_usdc
        cur == r.current_balance_usdc + pnl_usdc
        m1 == IF DailyLossBreached(pnl_usdc) THEN "ReadOnly" ELSE r.mode
        m2 == IF HardStopBreached(r.starting_balance_usdc + pnl_usdc,
                                  r.starting_balance_usdc)
              THEN "EmergencyStop" ELSE m1
    IN [risk |-> [r EXCEPT !.realized_pnl_usdc = daily,
                           !.current_balance_usdc = cur,
                           !.mode = m2],
        event |-> RiskEventOf(r.mode, m2)]

\* RiskState::register_realized_pnl: the state after the call and the event.
RegisterRealizedPnl(r, pnl_usdc) ==
    LET daily == r.realized_pnl_usdc + pnl_usdc
        cur == r.current_balance_usdc + pnl_usdc
        m1 == IF DailyLossBreached(daily) THEN "ReadOnly" ELSE r.mode
        m2 == IF HardStopBreached(cur, r.starting_balance_usdc)
              THEN "EmergencyStop" ELSE m1
    IN [risk |-> [r EXCEPT !.realized_pnl_usdc = daily,
                           !.current_balance_usdc = cur,
                           !.mode = m2],
        event |-> RiskEventOf(r.mode, m2)]

\* A can_open_new_position that looks at the count alone (mutant).
CanOpenIgnoringMode(r, open_positions) == open_positions < MaxOpenPositions

\* RiskState::can_open_new_position
CanOpenNewPosition(r, open_positions) ==
    r.mode = "Trading" /\ open_positions < MaxOpenPositions

----------------------------------------------------------------------------
\* src/src/state.rs

\* A Position as the entry path leaves it: peak at entry, not armed, no sell_tx.
\* The exit fractions are the per-position copies of the RiskParams.
NewPosition(id) ==
    [id |-> id,
     size_usdc |-> PositionSizeUsdc,
     entry_price |-> EntryPrice,
     peak_price |-> EntryPrice,
     stop_loss_pct |-> StopLossPct,
     take_profit_pct |-> TakeProfitPct,
     trailing_arm_pct |-> TrailingArmPct,
     trailing_armed |-> FALSE,
     sell_tx |-> FALSE]

\* PersistedState::new
PersistedStateNew(risk) ==
    [version |-> 1, mode |-> risk.mode, risk |-> risk, positions |-> <<>>]

\* A sync_mode_from_risk that leaves the mode field as it is (mutant).
SyncNothing(st) == st

\* PersistedState::sync_mode_from_risk
SyncModeFromRisk(st) == [st EXCEPT !.mode = st.risk.mode]

\* The file at the store's path: absent, a complete snapshot, or the torn
\* remains of an interrupted write.
NoSnapshot == PersistedStateNew(RiskStateNew(0, 0))
AbsentFile == [kind |-> "absent", st |-> NoSnapshot]
TornFile == [kind |-> "torn", st |-> NoSnapshot]
FileOf(st) == [kind |-> "file", st |-> st]

\* StateStore::load: Ok(None) without a file, Err on a file that does not
\* parse, Ok(Some(st)) otherwise.
Load(d) ==
    IF d.kind = "absent" THEN [ok |-> TRUE, some |-> FALSE, st |-> NoSnapshot]
    ELSE IF d.kind = "torn" THEN [ok |-> FALSE, some |-> FALSE, st |-> NoSnapshot]
    ELSE [ok |-> TRUE, some |-> TRUE, st |-> d.st]

\* What a call of load may return: the result the file decides, or the Err
\* of a read that fails.
IoError == [ok |-> FALSE, some |-> FALSE, st |-> NoSnapshot]
LoadResults(d) == {Load(d), IoError}

\* StateStore::save: fs::write replaces the file's contents with the snapshot
\* (written), or fails and leaves the file as it was.
Save(d, st, written) == IF written THEN FileOf(st) ELSE d

\* The Ok arms of the match on store.load() of main and of the loops: the
\* stored snapshot, or a fresh one when there is none.
LoadOrInit(res, day_key) ==
    IF res.some THEN res.st
    ELSE PersistedStateNew(RiskStateNew(day_key, CapitalUsdc))

----------------------------------------------------------------------------
\* src/src/state.rs, the file as serde_json writes and reads it.  An f64 is
\* a finite number or not (an infinity or NaN); an Option<String> is None or
\* Some; the JSON text is the tree of its values.

F64(n) == [finite |-> TRUE, v |-> n]
NonFinite == [finite |-> FALSE, v |-> 0]
NoneTx == [some |-> FALSE, s |-> ""]
SomeTx(x) == [some |-> TRUE, s |-> x]

JNull == [t |-> "null", n |-> 0, s |-> ""]
JNum(n) == [t |-> "num", n |-> n, s |-> ""]
JStr(x) == [t |-> "str", n |-> 0, s |-> x]
JBool(b) == [t |-> "bool", n |-> IF b THEN 1 ELSE 0, s |-> ""]

\* Serialize for f64: a finite value is written as a number, a non-finite
\* one as null.  Deserialize for f64 takes a number and nothing else.
SerF64(x) == IF x.finite THEN JNum(x.v) ELSE JNull
DeF64Ok(j) == j.t = "num"
DeF64(j) == F64(j.n)

\* Option<String>: None is null, Some(x) the string; both are read back.
SerOpt(o) == IF o.some THEN JStr(o.s) ELSE JNull
DeOptOk(j) == j.t \in {"null", "str"}
DeOpt(j) == IF j.t = "str" THEN SomeTx(j.s) ELSE NoneTx

\* Position (state.rs:10-30) as JSON, and back.
PositionToJson(p) ==
    [id |-> JNum(p.id),
     size_usdc |-> SerF64(p.size_usdc),
     entry_price |-> SerF64(p.entry_price),
     peak_price |-> SerF64(p.peak_price),
     trailing_armed |-> JBool(p.trailing_armed),
     buy_tx |-> SerOpt(p.buy_tx),
     sell_tx |-> SerOpt(p.sell_tx)]
PositionJsonOk(j) ==
    /\ DeF64Ok(j.size_usdc) /\ DeF64Ok(j.entry_price) /\ DeF64Ok(j.peak_price)
    /\ j.trailing_armed.t = "bool"
    /\ DeOptOk(j.buy_tx) /\ DeOptOk(j.sell_tx)
PositionFromJson(j) ==
    [id |-> j.id.n,
     size_usdc |-> DeF64(j.size_usdc),
     entry_price |-> DeF64(j.entry_price),
     peak_price |-> DeF64(j.peak_price),
     trailing_armed |-> (j.trailing_armed.n = 1),
     buy_tx |-> DeOpt(j.buy_tx),
     sell_tx |-> DeOpt(j.sell_tx)]

\* PersistedState (state.rs:32-42) with its RiskState as JSON, and back.
ToJson(st) ==
    [version |-> JNum(st.version),
     mode |-> JStr(st.mode),
     risk |-> [mode |-> JStr(st.risk.mode),
               day_key |-> JNum(st.risk.day_key),
               realized_pnl_usdc |-> SerF64(st.risk.realized_pnl_usdc),
               starting_balance_usdc |-> SerF64(st.risk.starting_balance_usdc),
               current_balance_usdc |-> SerF64(st.risk.current_balance_usdc)],
     positions |-> [k \in 1..Len(st.positions) |-> PositionToJson(st.positions[k])]]
JsonOk(j) ==
    /\ j.version.t = "num"
    /\ j.mode.t = "str" /\ j.mode.s \in Modes
    /\ j.risk.mode.t = "str" /\ j.risk.mode.s \in Modes
    /\ DeF64Ok(j.risk.realized_pnl_usdc)
    /\ DeF64Ok(j.risk.starting_balance_usdc)
    /\ DeF64Ok(j.risk.current_balance_usdc)
    /\ \A k \in 1..Len(j.positions) : PositionJsonOk(j.positions[k])
FromJson(j) ==
    [version |-> j.version.n,
     mode |-> j.mode.s,
     risk |-> [mode |-> j.risk.mode.s,
               day_key |-> j.risk.day_key.n,
               realized_pnl_usdc |-> DeF64(j.risk.realized_pnl_usdc),
               starting_balance_usdc |-> DeF64(j.risk.starting_balance_usdc),
               current_balance_usdc |-> DeF64(j.risk.current_balance_usdc)],
     positions |-> [k \in 1..Len(j.positions) |-> PositionFromJson(j.positions[k])]]

\* The snapshots handed to the store in SpecStore.
StorePositions ==
    { [id |-> 1, size_usdc |-> F64(PositionSizeUsdc), entry_price |-> F64(EntryPrice),
       peak_price |-> F64(EntryPrice), trailing_armed |-> FALSE,
       buy_tx |-> SomeTx("buy"), sell_tx |-> NoneTx],
      [id |-> 1, size_usdc |-> F64(PositionSizeUsdc), entry_price |-> F64(EntryPrice),
       peak_price |-> F64(120), trailing_armed |-> TRUE,
       buy_tx |-> NoneTx, sell_tx |-> SomeTx("sell")] }
StoreRisks ==
    { [mode |-> m, day_key |-> 1, realized_pnl_usdc |-> F64(-6),
       starting_balance_usdc |-> F64(CapitalUsdc), current_balance_usdc |-> c]
        : m \in {"Trading", "EmergencyStop"}, c \in {F64(158), NonFinite} }
StoreSnapshots ==
    { [version |-> 1, mode |-> r.mode, risk |-> r, positions |-> ps]
        : r \in StoreRisks, ps \in {<<>>} \cup {<<p>> : p \in StorePositions} }
NoStoreSnapshot ==
    [version |-> 1, mode |-> "Trading",
     risk |-> [mode |-> "Trading", day_key |-> 0, realized_pnl_usdc |-> F64(0),
               starting_balance_usdc |-> F64(0), current_balance_usdc |-> F64(0)],
     positions |-> <<>>]

\* The file: absent, the text of a JSON value, or text that is no JSON.
AbsentText == [kind |-> "absent", json |-> ToJson(NoStoreSnapshot)]
BrokenText == [kind |-> "broken", json |-> ToJson(NoStoreSnapshot)]
TextOf(st) == [kind |-> "text", json |-> ToJson(st)]

\* A load that takes a file it cannot parse for no file (mutant).
LoadTextLenient(f) ==
    IF f.kind = "text" /\ JsonOk(f.json)
    THEN [ok |-> TRUE, some |-> TRUE, st |-> FromJson(f.json)]
    ELSE [ok |-> TRUE, some |-> FALSE, st |-> NoStoreSnapshot]

\* StateStore::load on the text: Ok(None) without a file, Err when from_str
\* fails, Ok(Some(st)) otherwise.
LoadText(f) ==
    IF f.kind = "absent" THEN [ok |-> TRUE, some |-> FALSE, st |-> NoStoreSnapshot]
    ELSE IF f.kind = "text" /\ JsonOk(f.json)
         THEN [ok |-> TRUE, some |-> TRUE, st |-> FromJson(f.json)]
         ELSE [ok |-> FALSE, some |-> FALSE, st |-> NoStoreSnapshot]

\* StateStore::save on the text: to_string_pretty succeeds on every snapshot,
\* fs::write puts the text in the file (written) or fails.
SaveText(f, st, written) == IF written THEN TextOf(st) ELSE f

NoResult == [ok |-> FALSE, some |-> FALSE, st |-> NoStoreSnapshot]
IdleStore ==
    /\ sSnap = NoStoreSnapshot
    /\ sFile = AbsentText
    /\ sRes = NoResult

----------------------------------------------------------------------------
\* Helpers on the open-position list.
RemoveAt(s, i) == [j \in 1..(Len(s) - 1) |-> IF j < i THEN s[j] ELSE s[j + 1]]
Ids(s) == [j \in 1..Len(s) |-> s[j].id]
IdSet(s) == {s[j].id : j \in 1..Len(s)}

\* Prices the price feed may quote, and its failure.
Prices == {70, 120, 140}
PriceErr == 0

\* Snapshots the daemon may find at boot: left by an earlier run with
\* MaxPositions open positions, either still trading (untouched capital, or
\* after the losses of earlier days) or stopped by the portfolio hard stop.
InitialRisks ==
    { [RiskStateNew(1, CapitalUsdc) EXCEPT !.current_balance_usdc = 200],
      [RiskStateNew(1, CapitalUsdc) EXCEPT !.current_balance_usdc = 164],
      [RiskStateNew(1, CapitalUsdc) EXCEPT !.current_balance_usdc = 158,
                                           !.mode = "EmergencyStop"] }
InitialSnapshots ==
    { [PersistedStateNew(r) EXCEPT !.positions = [j \in 1..n |-> NewPosition(j)]]
        : r \in InitialRisks, n \in {MaxPositions} }

----------------------------------------------------------------------------
\* History records.
Tasks == {"pos", "mkt", "hk"}
Ev(kind, task, id, price, reason, ok) ==
    [kind |-> kind, task |-> task, id |-> id, price |-> price,
     reason |-> reason, ok |-> ok]
NoEv == Ev("none", "none", 0, 0, "None", FALSE)
NoLast == [some |-> FALSE, mode |-> "Trading", st |-> NoSnapshot]
NoTick == [mode |-> "Trading", loaded |-> <<>>, liq |-> <<>>, closed |-> {},
           failed |-> {}, looked |-> {}, unpriced |-> {}, last |-> NoLast,
           sold |-> {}]
SaveEv(task, written, wasStale) ==
    Ev(IF written THEN "save" ELSE "saveErr", task, 0, 0,
       IF wasStale THEN "StaleCopy" ELSE "FreshCopy", TRUE)

----------------------------------------------------------------------------
\* src/src/main.rs, positions loop: the exit rules of one position.

\* A peak that follows the price down as well as up (mutant).
UpdatePeakFollowingPrice(p, price) ==
    LET armed == p.trailing_armed
                 \/ (price - p.entry_price) * 100 >= p.trailing_arm_pct * p.entry_price
    IN [p EXCEPT !.peak_price = price, !.trailing_armed = armed]

\* Lines 200-208: update peak, then arm the trailing stop.
UpdatePeakAndArm(p, price) ==
    LET peak == IF price > p.peak_price THEN price ELSE p.peak_price
        armed == p.trailing_armed
                 \/ (price - p.entry_price) * 100 >= p.trailing_arm_pct * p.entry_price
    IN [p EXCEPT !.peak_price = peak, !.trailing_armed = armed]

\* Lines 210-214: stop_price, times 100.
StopPrice100(p) ==
    IF p.trailing_armed THEN p.peak_price * (100 - p.stop_loss_pct)
    ELSE p.entry_price * (100 - p.stop_loss_pct)

\* Line 215: tp_price, times 100.
TpPrice100(p) == p.entry_price * (100 + p.take_profit_pct)

\* Exit rules that look at the take profit before the stop (mutant).
CloseReasonTakeProfitFirst(p, price) ==
    IF price * 100 >= TpPrice100(p) THEN "TakeProfit"
    ELSE IF price * 100 <= StopPrice100(p)
         THEN (IF p.trailing_armed THEN "TrailingStop" ELSE "StopLoss")
         ELSE "None"

\* Lines 217-225: close_reason for the position as updated by this tick.
CloseReason(p, price) ==
    IF price * 100 <= StopPrice100(p)
    THEN (IF p.trailing_armed THEN "TrailingStop" ELSE "StopLoss")
    ELSE IF price * 100 >= TpPrice100(p) THEN "TakeProfit" ELSE "None"

\* Lines 245-246: pnl_usdc = size_usdc * (1 + pnl_pct) - size_usdc.
PnlUsdc(p, price) == (p.size_usdc * (price - p.entry_price)) \div p.entry_price

SetAt(st, i, p) == [st EXCEPT !.positions[i] = p]

\* Lines 239-295, swap Ok: sell_tx, register the P&L, sync, remove.
OnSwapOk(st, i, p, price) ==
    LET out == RegisterRealizedPnl(st.risk, PnlUsdc(p, price))
        st1 == SyncModeFromRisk([st EXCEPT !.risk = out.risk])
    IN [st |-> [st1 EXCEPT !.positions = RemoveAt(st.positions, i)],
        i |-> i,
        closed |-> TRUE,
        event |-> out.event]

\* A failed exit that books the P&L all the same (mutant).
OnSwapErrBooking(st, i, p, price) ==
    [st |-> [SetAt(st, i, p) EXCEPT
                !.risk = RegisterRealizedPnl(st.risk, PnlUsdc(p, price)).risk],
     i |-> i + 1,
     closed |-> FALSE,
     event |-> "None"]

\* Lines 297-303, swap Err: alert, i += 1.
OnSwapErr(st, i, p, price) ==
    [st |-> SetAt(st, i, p), i |-> i + 1, closed |-> FALSE, event |-> "None"]

\* A price failure that ends the monitor loop (mutant).
OnPriceErrBreak(st, i) ==
    [st |-> st, i |-> Len(st.positions) + 1, closed |-> FALSE, event |-> "None"]

\* Lines 191-197, price Err: alert, i += 1, continue.
OnPriceErr(st, i) ==
    [st |-> st, i |-> i + 1, closed |-> FALSE, event |-> "None"]

\* Lines 200-226 with no rule firing: the position keeps its new peak and
\* arming, i += 1 (line 307).
OnHold(st, i, p) ==
    [st |-> SetAt(st, i, p), i |-> i + 1, closed |-> FALSE, event |-> "None"]

\* Lines 182-308: one turn of the monitor loop on positions[i], the price
\* feed answering price (or failing) and the exit swap, if one is submitted,
\* succeeding (ok) or failing.
MonitorTurn(st, i, price, ok) ==
    LET p0 == st.positions[i]
        p == UpdatePeakAndArm(p0, price)
        reason == IF price = PriceErr THEN "None" ELSE CloseReason(p, price)
        kind == IF price = PriceErr THEN "priceErr"
                ELSE IF reason = "None" THEN "hold"
                ELSE IF ok THEN "exitOk" ELSE "exitErr"
        out == IF kind = "priceErr" THEN OnPriceErr(st, i)
               ELSE IF kind = "hold" THEN OnHold(st, i, p)
               ELSE IF kind = "exitOk"
                 THEN OnSwapOk(st, i, [p EXCEPT !.sell_tx = TRUE], price)
               ELSE OnSwapErr(st, i, p, price)
    IN [st |-> out.st, i |-> out.i, closed |-> out.closed, event |-> out.event,
        id |-> p0.id, kind |-> kind, reason |-> reason]

\* A liquidation loop that gives up at the first failure (mutant).
LiquidateBreakOnErr(st, idx, ok) ==
    IF ok THEN [st |-> [st EXCEPT !.positions = RemoveAt(@, idx)], idx |-> idx]
    ELSE [st |-> st, idx |-> Len(st.positions) + 1]

\* A liquidation loop that books the size of a closed position as a loss
\* (mutant).
LiquidateRegistering(st, idx, ok) ==
    IF ok
    THEN [st |-> SyncModeFromRisk(
                    [st EXCEPT !.positions = RemoveAt(@, idx),
                               !.risk = RegisterRealizedPnl(
                                            @, -st.positions[idx].size_usdc).risk]),
          idx |-> idx]
    ELSE [st |-> st, idx |-> idx + 1]

\* Lines 123-169: one turn of the liquidation loop, the close having
\* succeeded (ok) or failed.
LiquidateStep(st, idx, ok) ==
    IF ok THEN [st |-> [st EXCEPT !.positions = RemoveAt(@, idx)], idx |-> idx]
    ELSE [st |-> st, idx |-> idx + 1]

----------------------------------------------------------------------------
\* SpecRisk: one RiskState under arbitrary register_realized_pnl and
\* rollover_day_if_needed calls.

IdleDaemon ==
    /\ today = 1
    /\ disk = AbsentFile
    /\ hSt = NoSnapshot
    /\ pPc = "idle"
    /\ pSt = NoSnapshot
    /\ pIdx = 1
    /\ pClosedAny = FALSE
    /\ mPc = "idle"
    /\ mSt = NoSnapshot
    /\ alive = FALSE
    /\ ev = NoEv
    /\ pTick = NoTick
    /\ soldSaved = {}
    /\ stale = [t \in Tasks |-> FALSE]

InitRisk ==
    /\ \E s \in StartingBalances :
        /\ rs = RiskStateNew(1, s)
        /\ rBook = [start |-> s, sum |-> 0, from |-> RiskStateNew(1, s)]
    /\ rRegs = 0
    /\ rHardHit = FALSE
    /\ rDailyHit = FALSE
    /\ IdleDaemon
    /\ IdleStore

\* rs.register_realized_pnl(&params, pnl)
RegisterStep(pnl) ==
    LET out == RegisterRealizedPnl(rs, pnl) IN
    /\ rRegs < MaxRegs
    /\ rs' = out.risk
    /\ rRegs' = rRegs + 1
    /\ rHardHit' = (rHardHit \/ HardStopBreached(out.risk.current_balance_usdc,
                                                 out.risk.starting_balance_usdc))
    /\ rDailyHit' = (rDailyHit \/ DailyLossBreached(out.risk.realized_pnl_usdc))
    /\ rBook' = [rBook EXCEPT !.sum = @ + pnl]
    /\ ev' = Ev("register", "risk", 0, pnl, out.event, TRUE)
    /\ UNCHANGED <<taskVars, storeVars, pTick, soldSaved, stale>>

RiskRegister == \E pnl \in PnlInputs : RegisterStep(pnl)

\* rs.rollover_day_if_needed(dk)
RiskRollover ==
    \E dk \in 1..MaxDay :
        /\ rs' = RolloverDayIfNeeded(rs, dk)
        /\ rDailyHit' = (rDailyHit /\ dk = rs.day_key)
        /\ ev' = Ev("rollover", "risk", 0, dk, "None", dk # rs.day_key)
        /\ UNCHANGED <<rRegs, rHardHit, rBook, taskVars, storeVars, pTick, soldSaved, stale>>

\* rs.can_open_new_position(&params, n): a call on &self, its result in ev.ok.
RiskCanOpen ==
    \E n \in 0..(MaxOpenPositions + 1) :
        /\ ev' = Ev("canOpen", "risk", n, 0, "None", CanOpenNewPosition(rs, n))
        /\ UNCHANGED <<riskVars, taskVars, storeVars, pTick, soldSaved, stale>>

NextRisk == RiskRegister \/ RiskRollover \/ RiskCanOpen

SpecRisk == InitRisk /\ [][NextRisk]_vars

\* C1: once a registration has left the drawdown at or below the hard stop,
\* the mode is EmergencyStop after that call and after every later call.
C1_HardStopNeverReverts == rHardHit => rs.mode = "EmergencyStop"

\* C2: once a registration has left the day's realized P&L at or below the
\* daily limit, the mode is ReadOnly or EmergencyStop until the day key rolls
\* over, whatever is registered later in that day.
C2_DailyLossSticks == rDailyHit => rs.mode \in {"ReadOnly", "EmergencyStop"}

\* C2's case: the day's total is back above the limit after a breach.
C2_Witness ==
    /\ rDailyHit
    /\ ~DailyLossBreached(rs.realized_pnl_usdc)
    /\ rs.mode = "ReadOnly"

\* C15: after any sequence of registrations and rollovers the current balance
\* is the starting balance the state was created with plus the sum of every
\* pnl registered since, and the starting balance is the one it was created
\* with.
C15_BalanceIsStartPlusSum ==
    /\ rs.starting_balance_usdc = rBook.start
    /\ rs.current_balance_usdc = rBook.start + rBook.sum

\* C15's case: a rollover has zeroed the daily counter after registrations
\* whose sum the balance still carries.
C15_Witness ==
    /\ rRegs >= 2
    /\ rs.day_key # 1
    /\ rBook.sum # 0
    /\ rs.realized_pnl_usdc = 0
    /\ rs.current_balance_usdc # rs.starting_balance_usdc

\* C16: a registration returns EnterReadOnly exactly when the mode was Trading
\* before and is ReadOnly after, EnterEmergencyStop exactly when the mode was
\* not EmergencyStop before and is EmergencyStop after, and None otherwise;
\* so an event comes only with a change of mode, never from a call that
\* leaves the mode as it was.
C16_EventOnlyOnEdge ==
    [][ev'.kind = "register" =>
          /\ ev'.reason \in {"None", "EnterReadOnly", "EnterEmergencyStop"}
          /\ (ev'.reason = "EnterReadOnly") <=>
                (rs.mode = "Trading" /\ rs'.mode = "ReadOnly")
          /\ (ev'.reason = "EnterEmergencyStop") <=>
                (rs.mode # "EmergencyStop" /\ rs'.mode = "EmergencyStop")
          /\ (ev'.reason # "None") => rs'.mode # rs.mode
          /\ (rs'.mode = rs.mode) => ev'.reason = "None"
      ]_vars

\* C16's case: a registration made in ReadOnly, the day's loss still beyond
\* the limit, has returned None.
C16_Witness ==
    /\ ev.kind = "register"
    /\ ev.reason = "None"
    /\ rRegs >= 2
    /\ ~rHardHit
    /\ rs.mode = "ReadOnly"
    /\ DailyLossBreached(rs.realized_pnl_usdc)
    /\ DailyLossBreached(rs.realized_pnl_usdc - ev.price)

\* C19: a rollover to a day key other than the stored one zeroes the daily
\* realized P&L and adopts the key, leaving mode, starting balance and current
\* balance as they were; a rollover to the stored key changes nothing.
C19_RolloverFrame ==
    [][ev'.kind = "rollover" =>
          /\ rs'.mode = rs.mode
          /\ rs'.starting_balance_usdc = rs.starting_balance_usdc
          /\ rs'.current_balance_usdc = rs.current_balance_usdc
          /\ IF ev'.price # rs.day_key
             THEN rs'.day_key = ev'.price /\ rs'.realized_pnl_usdc = 0
             ELSE rs' = rs
      ]_vars

\* C19's case: a rollover to a new day has zeroed the day's loss of a state
\* that is ReadOnly and below its starting balance.
C19_Witness ==
    /\ ev.kind = "rollover"
    /\ ev.ok
    /\ rs.day_key = ev.price
    /\ rs.mode = "ReadOnly"
    /\ rs.realized_pnl_usdc = 0
    /\ rs.current_balance_usdc < rs.starting_balance_usdc

\* C20: can_open_new_position is true exactly when the mode is Trading and the
\* count is below max_open_positions, false for every count in ReadOnly and
\* EmergencyStop, and leaves the risk state as it was.
C20_CanOpenOnlyWhenTrading ==
    [][ev'.kind = "canOpen" =>
          /\ ev'.ok <=> (rs.mode = "Trading" /\ ev'.id < MaxOpenPositions)
          /\ (rs.mode \in {"ReadOnly", "EmergencyStop"}) => ~ev'.ok
          /\ rs' = rs
      ]_vars

\* C20's case: asked in ReadOnly with no position open, the answer is false.
C20_Witness ==
    /\ ev.kind = "canOpen"
    /\ ev.id = 0
    /\ ~ev.ok
    /\ rs.mode = "ReadOnly"

\* C25: a registration made in Trading that breaches the daily limit and the
\* hard stop at once, or made in ReadOnly and breaching the hard stop, leaves
\* the mode EmergencyStop and returns EnterEmergencyStop.
C25_HardStopOverridesReadOnly ==
    [][ev'.kind = "register" =>
          /\ (/\ rs.mode = "Trading"
              /\ DailyLossBreached(rs'.realized_pnl_usdc)
              /\ HardStopBreached(rs'.current_balance_usdc, rs'.starting_balance_usdc))
                => (rs'.mode = "EmergencyStop" /\ ev'.reason = "EnterEmergencyStop")
          /\ (/\ rs.mode = "ReadOnly"
              /\ HardStopBreached(rs'.current_balance_usdc, rs'.starting_balance_usdc))
                => (rs'.mode = "EmergencyStop" /\ ev'.reason = "EnterEmergencyStop")
      ]_vars

\* C25's case: the first registration made has breached both limits.
C25_Witness ==
    /\ ev.kind = "register"
    /\ rRegs = 1
    /\ DailyLossBreached(rs.realized_pnl_usdc)
    /\ HardStopBreached(rs.current_balance_usdc, rs.starting_balance_usdc)
    /\ rs.mode = "EmergencyStop"
    /\ ev.reason = "EnterEmergencyStop"

----------------------------------------------------------------------------
\* SpecSplit: losses registered one after another within one day, from any
\* of SplitStarts, next to the one call that would register their sum.

\* Non-positive amounts, and the RiskStates the losses start from: a fresh
\* one, and ones left by earlier registrations and rollovers in each mode.
LossInputs == {-45, -6, -2, 0}
SplitStarts ==
    { RiskStateNew(1, CapitalUsdc),
      [RiskStateNew(1, CapitalUsdc) EXCEPT !.realized_pnl_usdc = -2,
                                           !.current_balance_usdc = 198],
      [RiskStateNew(1, CapitalUsdc) EXCEPT !.current_balance_usdc = 198],
      [RiskStateNew(1, CapitalUsdc) EXCEPT !.mode = "ReadOnly",
                                           !.realized_pnl_usdc = -6,
                                           !.current_balance_usdc = 194],
      [RiskStateNew(1, CapitalUsdc) EXCEPT !.mode = "ReadOnly",
                                           !.current_balance_usdc = 165],
      [RiskStateNew(1, CapitalUsdc) EXCEPT !.mode = "EmergencyStop",
                                           !.realized_pnl_usdc = -45,
                                           !.current_balance_usdc = 155],
      [RiskStateNew(1, CapitalUsdc) EXCEPT !.mode = "EmergencyStop",
                                           !.current_balance_usdc = 155] }

InitSplit ==
    /\ rs \in SplitStarts
    /\ rBook = [start |-> rs.starting_balance_usdc, sum |-> 0, from |-> rs]
    /\ rRegs = 0
    /\ rHardHit = FALSE
    /\ rDailyHit = FALSE
    /\ IdleDaemon
    /\ IdleStore

SplitRegister == \E pnl \in LossInputs : RegisterStep(pnl)

NextSplit == SplitRegister
SpecSplit == InitSplit /\ [][NextSplit]_vars

\* C26: after any sequence of non-positive amounts registered within one day
\* the RiskState (mode, daily realized P&L, balances) is the one a single
\* registration of their sum would have left.
C26_SplitLossesSameAsSum ==
    rRegs >= 1 => rs = RegisterRealizedPnl(rBook.from, rBook.sum).risk

\* C26's case: three losses, each below the daily limit, have reached it
\* together and the mode is ReadOnly.
C26_Witness ==
    /\ rRegs = 3
    /\ rBook.from.mode = "Trading"
    /\ rBook.from.realized_pnl_usdc = 0
    /\ rBook.sum = -6
    /\ ev.price = -2
    /\ rs.mode = "ReadOnly"

----------------------------------------------------------------------------
\* SpecStore: one StateStore under arbitrary save and load calls, the caller
\* holding any of StoreSnapshots, the file at first absent.

InitStore ==
    /\ rs = RiskStateNew(1, CapitalUsdc)
    /\ rRegs = 0
    /\ rHardHit = FALSE
    /\ rDailyHit = FALSE
    /\ rBook = [start |-> CapitalUsdc, sum |-> 0, from |-> RiskStateNew(1, CapitalUsdc)]
    /\ IdleDaemon
    /\ sSnap \in StoreSnapshots
    /\ sFile = AbsentText
    /\ sRes = NoResult

\* The caller comes to hold another snapshot.
StorePick ==
    /\ sSnap' \in StoreSnapshots
    /\ ev' = Ev("storePick", "store", 0, 0, "None", TRUE)
    /\ UNCHANGED <<riskVars, taskVars, sFile, sRes, pTick, soldSaved, stale>>

\* store.save(&sSnap)
StoreSave ==
    \E written \in BOOLEAN :
        /\ sFile' = SaveText(sFile, sSnap, written)
        /\ ev' = Ev("storeSave", "store", 0, 0, "None", written)
        /\ UNCHANGED <<riskVars, taskVars, sSnap, sRes, pTick, soldSaved, stale>>

\* store.load()
StoreLoad ==
    /\ sRes' = LoadText(sFile)
    /\ ev' = Ev("storeLoad", "store", 0, 0, "None", LoadText(sFile).ok)
    /\ UNCHANGED <<riskVars, taskVars, sSnap, sFile, pTick, soldSaved, stale>>

\* Something other than the store leaves text in the file that is no JSON,
\* or removes the file.
StoreDamage ==
    /\ sFile' \in {BrokenText, AbsentText}
    /\ ev' = Ev("storeDamage", "store", 0, 0, "None", TRUE)
    /\ UNCHANGED <<riskVars, taskVars, sSnap, sRes, pTick, soldSaved, stale>>

NextStore == StorePick \/ StoreSave \/ StoreLoad \/ StoreDamage
SpecStore == InitStore /\ [][NextStore]_vars

\* C23: a load that directly follows a successful save of the snapshot the
\* caller holds returns that snapshot.
C23_SaveLoadRoundTrip ==
    [][(ev.kind = "storeSave" /\ ev.ok /\ ev'.kind = "storeLoad") =>
          (sRes'.ok /\ sRes'.some /\ sRes'.st = sSnap)]_vars

\* C24: load returns Ok(None) when there is no file and Err when the file
\* holds text that does not parse into a snapshot, and leaves the file as it
\* is in every case.
C24_LoadAbsentOrError ==
    [][ev'.kind = "storeLoad" =>
          /\ sFile' = sFile
          /\ sFile.kind = "absent" => (sRes'.ok /\ ~sRes'.some)
          /\ sFile.kind = "broken" => ~sRes'.ok
          /\ (sFile.kind = "text" /\ ~JsonOk(sFile.json)) => ~sRes'.ok
          /\ (sRes'.ok /\ sRes'.some) => sFile.kind = "text"
      ]_vars

\* C24's case: a load of a file that does not parse has returned Err and the
\* file is as it was.
C24_Witness ==
    /\ ev.kind = "storeLoad"
    /\ ~ev.ok
    /\ ~sRes.ok
    /\ sFile.kind = "broken"

----------------------------------------------------------------------------
\* Spec: the daemon's three loops over the snapshot file (src/src/main.rs).

\* main, lines 35-47: the state after boot.
Boot(d, day_key) == LoadOrInit(Load(d), day_key)

Init ==
    /\ rs = RiskStateNew(1, CapitalUsdc)
    /\ rRegs = 0
    /\ rHardHit = FALSE
    /\ rDailyHit = FALSE
    /\ rBook = [start |-> CapitalUsdc, sum |-> 0, from |-> RiskStateNew(1, CapitalUsdc)]
    /\ today = 1
    /\ disk \in {AbsentFile} \cup {FileOf(st) : st \in InitialSnapshots}
    /\ hSt = Boot(disk, today)
    /\ pPc = "idle"
    /\ pSt = NoSnapshot
    /\ pIdx = 1
    /\ pClosedAny = FALSE
    /\ mPc = "idle"
    /\ mSt = NoSnapshot
    /\ alive = TRUE
    /\ ev = NoEv
    /\ pTick = NoTick
    /\ soldSaved = {}
    /\ stale = [t \in Tasks |-> FALSE]
    /\ IdleStore

\* After a save by task t every other copy in memory predates it.
StaleAfterSave(t, posBusy, mktBusy) ==
    [u \in Tasks |-> /\ u # t
                     /\ (u = "pos" => posBusy)
                     /\ (u = "mkt" => mktBusy)]

\* The clock passes midnight in the configured time zone.
Midnight ==
    /\ alive
    /\ today < MaxDay
    /\ today' = today + 1
    /\ ev' = Ev("midnight", "none", 0, 0, "None", TRUE)
    /\ UNCHANGED <<riskVars, storeVars, disk, hSt, pPc, pSt, pIdx, pClosedAny, mPc, mSt, alive,
                   pTick, soldSaved, stale>>

\* A positions tick that goes on after a failed load (mutant).
PosAfterLoadIgnoringErr(ok, mode) ==
    IF mode = "EmergencyStop" THEN "liq" ELSE "mon"

\* Positions loop, lines 95-115: where the tick goes after store.load():
\* `continue` on Err, the liquidation block under EmergencyStop, else the
\* monitor loop.
PosAfterLoad(ok, mode) ==
    IF ~ok THEN "idle" ELSE IF mode = "EmergencyStop" THEN "liq" ELSE "mon"

\* Positions loop, lines 91-119: load, roll the day over, branch on the mode.
PosLoad ==
    /\ alive
    /\ pPc = "idle"
    /\ \E res \in LoadResults(disk) :
        LET st0 == LoadOrInit(res, today)
            st1 == [st0 EXCEPT !.risk = RolloverDayIfNeeded(st0.risk, today)]
        IN IF res.ok
           THEN /\ pSt' = st1
                /\ pPc' = PosAfterLoad(TRUE, st1.risk.mode)
                /\ pTick' = [mode |-> st1.risk.mode,
                             loaded |-> IF st1.risk.mode = "EmergencyStop"
                                        THEN st1.positions ELSE <<>>,
                             liq |-> <<>>, closed |-> {},
                             failed |-> {}, looked |-> {}, unpriced |-> {},
                             last |-> NoLast, sold |-> pTick.sold]
                /\ stale' = [stale EXCEPT !["pos"] = FALSE]
                /\ ev' = Ev("load", "pos", 0, 0, "None", TRUE)
           ELSE /\ pPc' = PosAfterLoad(FALSE, st1.risk.mode)
                /\ UNCHANGED <<pSt, pTick, stale>>
                /\ ev' = Ev("loadErr", "pos", 0, 0, "None", FALSE)
    /\ pIdx' = 1
    /\ pClosedAny' = FALSE
    /\ UNCHANGED <<riskVars, storeVars, today, disk, hSt, mPc, mSt, alive, soldSaved>>

\* Positions loop, lines 123-169: close_position_market for positions[idx].
PosLiquidate ==
    /\ alive
    /\ pPc = "liq"
    /\ pIdx <= Len(pSt.positions)
    /\ \E ok \in BOOLEAN :
        LET p == pSt.positions[pIdx]
            out == LiquidateStep(pSt, pIdx, ok)
        IN /\ pSt' = out.st
           /\ pIdx' = out.idx
           /\ pTick' = [pTick EXCEPT !.liq = Append(@, [id |-> p.id, ok |-> ok]),
                                     !.closed = IF ok THEN @ \cup {p.id} ELSE @,
                                     !.sold = IF ok THEN @ \cup {p.id} ELSE @]
           /\ ev' = Ev("liquidate", "pos", p.id, 0, "HardStop", ok)
    /\ UNCHANGED <<riskVars, storeVars, today, disk, hSt, pPc, pClosedAny, mPc, mSt, alive,
                   soldSaved, stale>>

\* Positions loop, lines 171-181: save after the liquidation loop, then go on
\* to monitor what is left.
PosLiqSave ==
    /\ alive
    /\ pPc = "liq"
    /\ pIdx > Len(pSt.positions)
    /\ \E written \in BOOLEAN :
        /\ disk' = Save(disk, pSt, written)
        /\ soldSaved' = IF written THEN soldSaved \cup pTick.closed ELSE soldSaved
        /\ stale' = IF written THEN StaleAfterSave("pos", TRUE, mPc = "loaded") ELSE stale
        /\ ev' = SaveEv("pos", written, stale["pos"])
    /\ pPc' = "mon"
    /\ pIdx' = 1
    /\ pClosedAny' = FALSE
    /\ pTick' = [pTick EXCEPT !.loaded = <<>>, !.liq = <<>>]
    /\ UNCHANGED <<riskVars, storeVars, today, hSt, pSt, mPc, mSt, alive>>

\* Positions loop, lines 182-308: one turn of the monitor loop: the price of
\* positions[i] (or its failure), the exit rules, and the exit swap with its
\* result when a rule fires.
PosMonitor ==
    /\ alive
    /\ pPc = "mon"
    /\ pIdx <= Len(pSt.positions)
    /\ \E price \in Prices \cup {PriceErr}, ok \in BOOLEAN :
        LET out == MonitorTurn(pSt, pIdx, price, ok)
        IN /\ pSt' = out.st
           /\ pIdx' = out.i
           /\ pClosedAny' = (pClosedAny \/ out.closed)
           /\ pTick' = [pTick EXCEPT
                           !.closed = IF out.kind = "exitOk" THEN @ \cup {out.id} ELSE @,
                           !.sold = IF out.kind = "exitOk" THEN @ \cup {out.id} ELSE @,
                           !.failed = IF out.kind = "exitErr" THEN @ \cup {out.id} ELSE @,
                           !.looked = @ \cup {out.id},
                           !.unpriced = IF out.kind = "priceErr"
                                        THEN @ \cup {out.id} ELSE @]
           /\ ev' = Ev(out.kind, "pos", out.id, price, out.reason,
                       out.kind = "exitOk")
    /\ UNCHANGED <<riskVars, storeVars, today, disk, hSt, pPc, mPc, mSt, alive, soldSaved, stale>>

\* Positions loop, lines 310-323: the save that ends the tick.
PosSave ==
    /\ alive
    /\ pPc = "mon"
    /\ pIdx > Len(pSt.positions)
    /\ \E written \in BOOLEAN :
        LET st1 == IF pClosedAny THEN pSt ELSE SyncModeFromRisk(pSt) IN
        /\ disk' = Save(disk, st1, written)
        /\ soldSaved' = IF written THEN soldSaved \cup pTick.closed ELSE soldSaved
        /\ stale' = IF written THEN StaleAfterSave("pos", FALSE, mPc = "loaded")
                     ELSE [stale EXCEPT !["pos"] = FALSE]
        /\ ev' = SaveEv("pos", written, stale["pos"])
        /\ pTick' = [NoTick EXCEPT !.last = IF written
                                             THEN [some |-> TRUE, mode |-> pTick.mode,
                                                   st |-> st1]
                                             ELSE NoLast,
                                    !.sold = pTick.sold]
    /\ pPc' = "idle"
    /\ pSt' = NoSnapshot
    /\ pIdx' = 1
    /\ pClosedAny' = FALSE
    /\ UNCHANGED <<riskVars, storeVars, today, hSt, mPc, mSt, alive>>

\* A market tick that goes on whatever the mode (mutant).
MktGateOpen(st) == TRUE

\* Market loop, lines 359-362: the tick goes on only in Trading.
MktGate(st) == st.risk.mode = "Trading"

\* Market loop, lines 341-362: load, roll over, stop here unless Trading.
MktLoad ==
    /\ alive
    /\ mPc = "idle"
    /\ \E res \in LoadResults(disk) :
        LET st0 == LoadOrInit(res, today)
            st1 == [st0 EXCEPT !.risk = RolloverDayIfNeeded(st0.risk, today)]
            go == res.ok /\ MktGate(st1)
        IN /\ mPc' = IF go THEN "loaded" ELSE "idle"
           /\ mSt' = IF go THEN st1 ELSE NoSnapshot
           /\ ev' = Ev(IF res.ok THEN "load" ELSE "loadErr", "mkt", 0, 0, "None", go)
    /\ stale' = [stale EXCEPT !["mkt"] = FALSE]
    /\ UNCHANGED <<riskVars, storeVars, today, disk, hSt, pPc, pSt, pIdx, pClosedAny, alive,
                   pTick, soldSaved>>

\* Market loop, lines 366-390: the strategy emits no intent; sync and save.
MktSave ==
    /\ alive
    /\ mPc = "loaded"
    /\ \E written \in BOOLEAN :
        /\ disk' = Save(disk, SyncModeFromRisk(mSt), written)
        /\ stale' = IF written THEN StaleAfterSave("mkt", pPc # "idle", FALSE)
                     ELSE [stale EXCEPT !["mkt"] = FALSE]
        /\ ev' = SaveEv("mkt", written, stale["mkt"])
    /\ mPc' = "idle"
    /\ mSt' = NoSnapshot
    /\ UNCHANGED <<riskVars, storeVars, today, hSt, pPc, pSt, pIdx, pClosedAny, alive,
                   pTick, soldSaved>>

\* Housekeeping loop, lines 406-442: roll over main's own `st`, alert on a
\* mode other than Trading (recorded in ev.ok), sync and save.
Housekeeping ==
    /\ alive
    /\ LET st1 == SyncModeFromRisk([hSt EXCEPT !.risk = RolloverDayIfNeeded(hSt.risk, today)])
       IN \E written \in BOOLEAN :
           /\ hSt' = st1
           /\ disk' = Save(disk, st1, written)
           /\ stale' = IF written THEN StaleAfterSave("hk", pPc # "idle", mPc = "loaded")
                        ELSE stale
           /\ ev' = [SaveEv("hk", written, stale["hk"])
                        EXCEPT !.ok = (st1.risk.mode # "Trading")]
    /\ UNCHANGED <<riskVars, storeVars, today, pPc, pSt, pIdx, pClosedAny, mPc, mSt, alive,
                   pTick, soldSaved>>

Next ==
    \/ PosLoad
    \/ PosLiquidate
    \/ PosLiqSave
    \/ PosMonitor
    \/ PosSave
    \/ MktLoad
    \/ MktSave
    \/ Housekeeping

\* The steps of each loop.
PosTask == PosLoad \/ PosLiquidate \/ PosLiqSave \/ PosMonitor \/ PosSave
MktTask == MktLoad \/ MktSave

\* The daemon within one day.
Spec == Init /\ [][Next]_vars

\* The positions loop and the housekeeping loop alone (the market loop idle).
NextMonitor ==
    \/ PosLoad
    \/ PosLiquidate
    \/ PosLiqSave
    \/ PosMonitor
    \/ PosSave
    \/ Housekeeping
SpecMonitor == Init /\ [][NextMonitor]_vars

\* The positions loop alone (the market and housekeeping loops idle).
NextPositions ==
    \/ PosLoad
    \/ PosLiquidate
    \/ PosLiqSave
    \/ PosMonitor
    \/ PosSave
SpecPositions == Init /\ [][NextPositions]_vars

\* The three loops over a snapshot with one open position.
OneSnapshots ==
    { [PersistedStateNew(r) EXCEPT !.positions = <<NewPosition(1)>>]
        : r \in InitialRisks }
InitOne ==
    /\ rs = RiskStateNew(1, CapitalUsdc)
    /\ rRegs = 0
    /\ rHardHit = FALSE
    /\ rDailyHit = FALSE
    /\ rBook = [start |-> CapitalUsdc, sum |-> 0, from |-> RiskStateNew(1, CapitalUsdc)]
    /\ today = 1
    /\ disk \in {AbsentFile} \cup {FileOf(st) : st \in OneSnapshots}
    /\ hSt = Boot(disk, today)
    /\ pPc = "idle"
    /\ pSt = NoSnapshot
    /\ pIdx = 1
    /\ pClosedAny = FALSE
    /\ mPc = "idle"
    /\ mSt = NoSnapshot
    /\ alive = TRUE
    /\ ev = NoEv
    /\ pTick = NoTick
    /\ soldSaved = {}
    /\ stale = [t \in Tasks |-> FALSE]
    /\ IdleStore
SpecOne == InitOne /\ [][Next]_vars

\* The daemon across midnights.
NextDays == Next \/ Midnight
SpecDays == Init /\ [][NextDays]_vars

----------------------------------------------------------------------------
\* SpecAlone: the positions loop running alone on a snapshot with one open
\* position, a whole tick (lines 91-323) taken as one step: no other task
\* touches the file between the tick's load and its save.

\* The exit fractions a position may carry, and the prices quoted to it.
StopLossPcts == {10, 30}
TakeProfitPcts == {10, 40}
TrailingArmPcts == {0, 15}
AlonePrices == {70, 90, 100, 110, 120, 150, 200}

AlonePositions ==
    { [NewPosition(1) EXCEPT !.stop_loss_pct = sl, !.take_profit_pct = tp,
                             !.trailing_arm_pct = arm]
        : sl \in StopLossPcts, tp \in TakeProfitPcts, arm \in TrailingArmPcts }
AloneSnapshots ==
    { [PersistedStateNew(r) EXCEPT !.positions = <<p>>]
        : r \in InitialRisks, p \in AlonePositions }

InitAlone ==
    /\ rs = RiskStateNew(1, CapitalUsdc)
    /\ rRegs = 0
    /\ rHardHit = FALSE
    /\ rDailyHit = FALSE
    /\ rBook = [start |-> CapitalUsdc, sum |-> 0, from |-> RiskStateNew(1, CapitalUsdc)]
    /\ today = 1
    /\ disk \in {FileOf(st) : st \in AloneSnapshots}
    /\ hSt = NoSnapshot
    /\ pPc = "idle"
    /\ pSt = NoSnapshot
    /\ pIdx = 1
    /\ pClosedAny = FALSE
    /\ mPc = "idle"
    /\ mSt = NoSnapshot
    /\ alive = TRUE
    /\ ev = NoEv
    /\ pTick = NoTick
    /\ soldSaved = {}
    /\ stale = [t \in Tasks |-> FALSE]
    /\ IdleStore

\* One tick of the positions loop: load and roll over (lines 95-112); under
\* EmergencyStop the liquidation of the position and its save (115-176); the
\* turn of the monitor loop on the position if it is still open (178-308);
\* the save that ends the tick (310-323).
PosTickAlone ==
    /\ alive
    /\ \E res \in LoadResults(disk), liqOk \in BOOLEAN,
          price \in AlonePrices \cup {PriceErr}, ok \in BOOLEAN,
          w1 \in BOOLEAN, w2 \in BOOLEAN :
        LET st0 == LoadOrInit(res, today)
            st1 == [st0 EXCEPT !.risk = RolloverDayIfNeeded(st0.risk, today)]
            emergency == st1.risk.mode = "EmergencyStop"
            st2 == IF emergency /\ Len(st1.positions) >= 1
                   THEN LiquidateStep(st1, 1, liqOk).st ELSE st1
            d1 == IF emergency THEN Save(disk, st2, w1) ELSE disk
            turn == Len(st2.positions) >= 1
            out == MonitorTurn(st2, 1, price, ok)
            st3 == IF turn THEN out.st ELSE st2
            st4 == IF turn /\ out.closed THEN st3 ELSE SyncModeFromRisk(st3)
        IN IF res.ok
           THEN /\ disk' = Save(d1, st4, w2)
                /\ ev' = IF turn
                         THEN Ev(out.kind, "alone", out.id, price, out.reason,
                                 out.kind = "exitOk")
                         ELSE Ev("noTurn", "alone", 0, 0, "None", w2)
           ELSE /\ disk' = disk
                /\ ev' = Ev("loadErr", "alone", 0, 0, "None", FALSE)
    /\ UNCHANGED <<riskVars, storeVars, today, hSt, pPc, pSt, pIdx, pClosedAny, mPc, mSt, alive,
                   pTick, soldSaved, stale>>

NextAlone == PosTickAlone
SpecAlone == InitAlone /\ [][NextAlone]_vars

\* C12: the exit evaluation of a tick yields at most one reason, the stop
\* first: with the position as this tick's peak and arming steps leave it,
\* price <= stop_price gives TrailingStop when armed and StopLoss otherwise;
\* TakeProfit is given only when price > stop_price and price >= tp_price;
\* otherwise there is no exit.
C12_ExitReasonPriority ==
    [][(ev'.task = "alone" /\ ev'.kind \in {"hold", "exitOk", "exitErr"}) =>
          LET p == UpdatePeakAndArm(disk.st.positions[1], ev'.price)
              stopHit == ev'.price * 100 <= StopPrice100(p)
              tpHit == ev'.price * 100 >= TpPrice100(p)
          IN /\ stopHit =>
                  ev'.reason = IF p.trailing_armed THEN "TrailingStop" ELSE "StopLoss"
             /\ (~stopHit /\ tpHit) => ev'.reason = "TakeProfit"
             /\ (~stopHit /\ ~tpHit) => ev'.reason = "None"
             /\ (ev'.kind = "hold") <=> (ev'.reason = "None")
      ]_vars

\* C12's case: the price is at or below the trailing stop and at or above the
\* take profit at once, and the reason given is TrailingStop.
C12_Witness ==
    /\ ev.task = "alone"
    /\ ev.kind = "exitErr"
    /\ ev.reason = "TrailingStop"
    /\ Len(disk.st.positions) = 1
    /\ disk.st.positions[1].trailing_armed
    /\ ev.price * 100 <= StopPrice100(disk.st.positions[1])
    /\ ev.price * 100 >= TpPrice100(disk.st.positions[1])

\* C18: whenever the position is armed, in the tick after its arming step and
\* in the file, peak_price >= entry_price, so the stop price the tick uses,
\* peak_price * (1 - stop_loss_pct), is at least entry_price * (1 - stop_loss_pct).
C18_ArmedStopNotBelowEntryStop ==
    [][/\ (ev'.task = "alone" /\ ev'.kind \in {"hold", "exitOk", "exitErr"}) =>
            LET p == UpdatePeakAndArm(disk.st.positions[1], ev'.price)
            IN p.trailing_armed =>
                 /\ p.peak_price >= p.entry_price
                 /\ StopPrice100(p) >= p.entry_price * (100 - p.stop_loss_pct)
       /\ \A j \in 1..Len(disk'.st.positions) :
            disk'.st.positions[j].trailing_armed =>
                disk'.st.positions[j].peak_price >= disk'.st.positions[j].entry_price
      ]_vars

\* C18's case: an armed position, its peak above entry, was quoted a price
\* below entry and above its trailing stop.
C18_Witness ==
    /\ ev.task = "alone"
    /\ ev.kind = "hold"
    /\ Len(disk.st.positions) = 1
    /\ disk.st.positions[1].trailing_armed
    /\ disk.st.positions[1].peak_price > disk.st.positions[1].entry_price
    /\ ev.price < disk.st.positions[1].entry_price

----------------------------------------------------------------------------
\* SpecCrash: the daemon within one day, killed at any point; the boot of the
\* restart is the last step followed.

\* The process dies between two steps and is started again: the loops' state
\* is gone and main boots from the file as it is (lines 35-47).
Crash ==
    /\ alive
    /\ Load(disk).ok
    /\ alive' = FALSE
    /\ hSt' = Boot(disk, today)
    /\ pPc' = "idle"
    /\ pSt' = NoSnapshot
    /\ pIdx' = 1
    /\ pClosedAny' = FALSE
    /\ mPc' = "idle"
    /\ mSt' = NoSnapshot
    /\ stale' = [t \in Tasks |-> FALSE]
    /\ ev' = Ev("crash", "none", 0, 0, pPc, TRUE)
    /\ UNCHANGED <<riskVars, storeVars, today, disk, pTick, soldSaved>>

\* The tasks that are about to call store.save.
AtSave(t) ==
    \/ t = "hk"
    \/ t = "mkt" /\ mPc = "loaded"
    \/ t = "pos" /\ pPc # "idle" /\ pIdx > Len(pSt.positions)

\* The process dies inside fs::write (src/src/state.rs:66), after the file
\* was truncated and before its new contents are complete.  The restart's
\* store.load()? fails on the torn file and main returns the error.
CrashInSave ==
    /\ alive
    /\ \E t \in Tasks :
        /\ AtSave(t)
        /\ ev' = Ev("crash", t, 0, 0, "save", FALSE)
    /\ disk' = TornFile
    /\ alive' = Load(TornFile).ok
    /\ pPc' = "idle"
    /\ pSt' = NoSnapshot
    /\ pIdx' = 1
    /\ pClosedAny' = FALSE
    /\ mPc' = "idle"
    /\ mSt' = NoSnapshot
    /\ stale' = [t \in Tasks |-> FALSE]
    /\ UNCHANGED <<riskVars, storeVars, today, hSt, pTick, soldSaved>>

NextCrash == Next \/ Crash \/ CrashInSave
SpecCrash == Init /\ [][NextCrash]_vars

\* The same with the market loop idle.
NextMonitorCrash == NextMonitor \/ Crash \/ CrashInSave
SpecMonitorCrash == Init /\ [][NextMonitorCrash]_vars

----------------------------------------------------------------------------
\* Claims about the daemon.

ModeRank(m) == IF m = "Trading" THEN 0 ELSE IF m = "ReadOnly" THEN 1 ELSE 2
DurableIds == IF disk.kind = "file" THEN IdSet(disk.st.positions) ELSE {}

\* C3: no task saves a snapshot taken before another task's later save.
C3_NoStaleSave == ~(ev.kind = "save" /\ ev.reason = "StaleCopy")

\* C4: a position whose exit swap succeeded in a tick that saved is never
\* again among the durable open positions.
C4_ClosedStaysClosed == soldSaved \cap DurableIds = {}

\* C5: the durable risk.mode only moves Trading -> ReadOnly -> EmergencyStop.
C5_DurableModeMonotone ==
    [][ModeRank(disk'.st.risk.mode) >= ModeRank(disk.st.risk.mode)]_vars

\* The positions a liquidation loop holds after the closes in liq: those
\* loaded, less the ones whose close succeeded.
KeptAfter(loaded, liq) ==
    LET all == [j \in 1..Len(loaded) |-> j]
        kept == SelectSeq(all, LAMBDA j : j > Len(liq) \/ ~liq[j].ok)
    IN [k \in 1..Len(kept) |-> loaded[kept[k]]]

\* C6: in a tick that loaded EmergencyStop the liquidation loop submits the
\* loaded positions one after another in their order, goes on after a failed
\* close, keeps exactly the positions whose close failed (unchanged) and has
\* submitted every position when it ends.
C6_LiquidationSubmitsAll ==
    pPc = "liq" =>
        /\ pTick.mode = "EmergencyStop"
        /\ Len(pTick.liq) <= Len(pTick.loaded)
        /\ \A j \in 1..Len(pTick.liq) : pTick.liq[j].id = pTick.loaded[j].id
        /\ pSt.positions = KeptAfter(pTick.loaded, pTick.liq)
        /\ (pIdx > Len(pSt.positions) => Len(pTick.liq) = Len(pTick.loaded))

\* C6's case: the first close failed, the second was still submitted and
\* succeeded, and the loop has ended with the first position alone.
C6_Witness ==
    /\ pPc = "liq"
    /\ pIdx > Len(pSt.positions)
    /\ Len(pTick.liq) = 2
    /\ ~pTick.liq[1].ok
    /\ pTick.liq[2].ok
    /\ Ids(pSt.positions) = <<pTick.liq[1].id>>

\* C7: a tick that loaded EmergencyStop evaluates no exit rule: it updates no
\* peak or arming and submits no rule-based exit swap.
C7_EmergencyBypassesRules ==
    (pPc = "mon" /\ pTick.mode = "EmergencyStop") =>
        ev.kind \notin {"hold", "exitOk", "exitErr"}

\* C8: after a crash during forced liquidation the file lists at most one
\* position whose liquidation swap had succeeded.
C8_CrashLosesAtMostInFlight ==
    (ev.kind = "crash" /\ ev.reason = "liq") =>
        Cardinality(pTick.closed \cap DurableIds) <= 1

\* C9: after a crash during a save, load returns a complete snapshot.
C9_SaveIsCrashSafe ==
    (ev.kind = "crash" /\ ev.reason = "save") => (Load(disk).ok /\ Load(disk).some)

\* C10: a failed exit swap leaves the position in the open set without a
\* sell_tx, registers no P&L (risk, mode and closed_any as before, every other
\* position untouched), and the save that ends the tick writes the position,
\* still without a sell_tx, for the next tick to evaluate.
C10_FailedExitChangesNothing ==
    [][/\ ev'.kind = "exitErr" =>
            /\ pSt'.risk = pSt.risk
            /\ pSt'.mode = pSt.mode
            /\ pClosedAny' = pClosedAny
            /\ Len(pSt'.positions) = Len(pSt.positions)
            /\ \A j \in 1..Len(pSt.positions) :
                 IF j = pIdx
                 THEN /\ pSt'.positions[j].id = ev'.id
                      /\ pSt'.positions[j] =
                            UpdatePeakAndArm(pSt.positions[j], ev'.price)
                      /\ ~pSt'.positions[j].sell_tx
                 ELSE pSt'.positions[j] = pSt.positions[j]
            /\ pIdx' = pIdx + 1
       /\ (ev'.kind = "save" /\ ev'.task = "pos" /\ pPc = "mon") =>
            \A id \in pTick.failed :
                \E j \in 1..Len(disk'.st.positions) :
                    /\ disk'.st.positions[j].id = id
                    /\ ~disk'.st.positions[j].sell_tx
      ]_vars

\* C10's case: an exit swap has just failed for a position whose stop was hit.
C10_Witness ==
    /\ pPc = "mon"
    /\ ev.kind = "exitErr"
    /\ ev.reason = "StopLoss"
    /\ ev.id \in pTick.failed
    /\ ev.id \in IdSet(pSt.positions)

\* C11: a failed price lookup leaves the whole snapshot of the tick as it was
\* (the position with its peak and arming, the open set, the risk state),
\* submits no swap and writes nothing, and the loop moves on to the next
\* position: when the tick ends every position still open had its price
\* looked up, and those whose lookup failed are still open.
C11_PriceFailureSkipsPosition ==
    [][/\ ev'.kind = "priceErr" =>
            /\ pSt' = pSt
            /\ pClosedAny' = pClosedAny
            /\ disk' = disk
            /\ pTick'.closed = pTick.closed
            /\ pTick'.failed = pTick.failed
            /\ pPc' = "mon"
            /\ pIdx' = pIdx + 1
       /\ (ev'.task = "pos" /\ ev'.kind \in {"save", "saveErr"} /\ pPc = "mon") =>
            /\ IdSet(pSt.positions) \subseteq pTick.looked
            /\ pTick.unpriced \subseteq IdSet(pSt.positions)
      ]_vars

\* C11's case: the lookup of the first position failed and the second was
\* evaluated all the same, in a tick that is about to save.
C11_Witness ==
    /\ pPc = "mon"
    /\ pIdx > Len(pSt.positions)
    /\ pTick.unpriced = {1}
    /\ pTick.looked = {1, 2}
    /\ ev.id = 2
    /\ ev.kind \in {"hold", "exitOk", "exitErr"}

\* C13: a housekeeping tick that follows another housekeeping tick raises its
\* ReadOnly/EmergencyStop alert if and only if the mode it sees differs from
\* the mode its previous tick saw.
C13_AlertsOnlyOnEdges ==
    [][(ev.task = "hk" /\ ev'.task = "hk") =>
          (ev'.ok <=> hSt'.risk.mode # hSt.risk.mode)]_vars

\* C14: after a successful save by any task the snapshot in the file has
\* mode = risk.mode.
C14_SavedModeIsRiskMode ==
    (ev.kind = "save" /\ disk.kind = "file") => disk.st.mode = disk.st.risk.mode

\* C14's case: the positions loop has saved after a close whose P&L moved the
\* mode to EmergencyStop.
C14_Witness ==
    /\ ev.kind = "save"
    /\ ev.task = "pos"
    /\ soldSaved # {}
    /\ disk.kind = "file"
    /\ disk.st.risk.mode = "EmergencyStop"
    /\ disk.st.risk.realized_pnl_usdc < 0

\* C17: the trailing_armed of a position in the file never goes from true to
\* false while the position is open.
C17_ArmedNeverDisarms ==
    [][\A j \in 1..Len(disk.st.positions), k \in 1..Len(disk'.st.positions) :
          (/\ disk.st.positions[j].id = disk'.st.positions[k].id
           /\ disk.st.positions[j].trailing_armed)
              => disk'.st.positions[k].trailing_armed]_vars

\* The mode a tick sees after its load and rollover of the file as it is.
LoadedMode == RolloverDayIfNeeded(LoadOrInit(Load(disk), today).risk, today).mode

\* C21: a market tick that loads a mode other than Trading ends there: it
\* keeps no snapshot to work on, changes no position and leaves the file as
\* it is; the market loop saves only a snapshot it loaded in Trading.
C21_MarketTickNoOpOutsideTrading ==
    [][/\ (ev'.task = "mkt" /\ ev'.kind = "load" /\ LoadedMode # "Trading") =>
            /\ ~ev'.ok
            /\ mPc' = "idle"
            /\ mSt' = NoSnapshot
            /\ disk' = disk
            /\ <<pPc, pSt, pIdx, pClosedAny, hSt>>' = <<pPc, pSt, pIdx, pClosedAny, hSt>>
       /\ (ev'.task = "mkt" /\ ev'.kind \in {"save", "saveErr"}) =>
            mSt.risk.mode = "Trading"
      ]_vars

\* C21's case: the market loop has loaded a file in EmergencyStop with a
\* position open and gone back to sleep.
C21_Witness ==
    /\ ev.task = "mkt"
    /\ ev.kind = "load"
    /\ ~ev.ok
    /\ disk.kind = "file"
    /\ disk.st.risk.mode = "EmergencyStop"
    /\ Len(disk.st.positions) > 0
    /\ mPc = "idle"

\* Every loop has a step to take.
TasksCanStep ==
    alive => (ENABLED PosTask /\ ENABLED MktTask /\ ENABLED Housekeeping)

\* What the other loops hold, for each loop.
PosLoopVars == <<pPc, pSt, pIdx, pClosedAny>>
MktLoopVars == <<mPc, mSt>>

\* A step in which a call failed stops nothing: the process lives on, the
\* file and the other loops are as before, a failed load ends the tick where
\* it began, a failed save ends the tick (or hands over to the monitor loop),
\* a failed price lookup, exit swap or liquidation moves on to the next
\* position.
ContainedStep ==
    /\ alive'
    /\ (ev'.kind = "loadErr" /\ ev'.task = "pos") =>
          /\ disk' = disk
          /\ pPc' = "idle"
          /\ pSt' = pSt
          /\ MktLoopVars' = MktLoopVars
          /\ hSt' = hSt
    /\ (ev'.kind = "loadErr" /\ ev'.task = "mkt") =>
          /\ disk' = disk
          /\ mPc' = "idle"
          /\ PosLoopVars' = PosLoopVars
          /\ hSt' = hSt
    /\ (ev'.kind = "saveErr" /\ ev'.task = "pos") =>
          /\ disk' = disk
          /\ pPc' = (IF pPc = "liq" THEN "mon" ELSE "idle")
          /\ MktLoopVars' = MktLoopVars
          /\ hSt' = hSt
    /\ (ev'.kind = "saveErr" /\ ev'.task = "mkt") =>
          /\ disk' = disk
          /\ mPc' = "idle"
          /\ PosLoopVars' = PosLoopVars
          /\ hSt' = hSt
    /\ (ev'.kind = "saveErr" /\ ev'.task = "hk") =>
          /\ disk' = disk
          /\ PosLoopVars' = PosLoopVars
          /\ MktLoopVars' = MktLoopVars
    /\ (\/ ev'.kind \in {"priceErr", "exitErr"}
        \/ ev'.kind = "liquidate" /\ ~ev'.ok) =>
          /\ disk' = disk
          /\ pPc' = pPc
          /\ pIdx' = pIdx + 1
          /\ Len(pSt'.positions) = Len(pSt.positions)
          /\ MktLoopVars' = MktLoopVars
          /\ hSt' = hSt

\* C22: a failure inside a tick is contained: the step in which a load, a
\* save, a price lookup or a swap fails stops neither the process nor another
\* loop, a failed load ends the tick with no swap and no save, and every loop
\* always has a next step to take.
C22_FailuresAreContained == [][ContainedStep]_vars /\ []TasksCanStep

\* C22's case: the positions loop failed to load while a market tick was
\* under way, and is back waiting for its next tick.
C22_Witness ==
    /\ ev.kind = "loadErr"
    /\ ev.task = "pos"
    /\ pPc = "idle"
    /\ mPc = "loaded"
    /\ alive

\* Position q is position p one look later: neither the peak nor the stop
\* price in force has come down.
Ratcheted(p, q) ==
    /\ q.peak_price >= p.peak_price
    /\ StopPrice100(q) >= StopPrice100(p)

\* Every position of `after` that is also in `before` (same id) is ratcheted.
AllRatcheted(before, after) ==
    \A j \in 1..Len(before), k \in 1..Len(after) :
        before[j].id = after[k].id => Ratcheted(before[j], after[k])

\* C27: for every open position the peak price and the stop price in force
\* never come down, neither within a tick of the position monitor (the tick
\* that arms the position included) nor from what one tick saved to what the
\* next tick loads.
C27_PeakAndStopRatchet ==
    [][/\ (pPc = "mon" /\ pPc' = "mon") => AllRatcheted(pSt.positions, pSt'.positions)
       /\ (ev'.kind = "load" /\ ev'.task = "pos" /\ pTick.last.some)
             => AllRatcheted(pTick.last.st.positions, pSt'.positions)]_vars

\* C28: the record of an open position in the file never shows trailing_armed
\* going from true to false nor a peak_price below the one the file held
\* before, whichever loop writes the file.
C28_DurableArmedAndPeakKept ==
    [][(disk.kind = "file" /\ disk'.kind = "file") =>
          \A j \in 1..Len(disk.st.positions), k \in 1..Len(disk'.st.positions) :
              disk.st.positions[j].id = disk'.st.positions[k].id =>
                 /\ disk.st.positions[j].trailing_armed
                       => disk'.st.positions[k].trailing_armed
                 /\ disk'.st.positions[k].peak_price
                       >= disk.st.positions[j].peak_price]_vars

\* The last tick of the position monitor loaded a mode other than
\* EmergencyStop, a registration in it entered EmergencyStop, and its save
\* was written.
EnteredEmergencyStop ==
    /\ pTick.last.some
    /\ pTick.last.mode # "EmergencyStop"
    /\ pTick.last.st.risk.mode = "EmergencyStop"

\* C29: after a tick in which a registration entered EmergencyStop, the next
\* tick of the position monitor that loads the file runs the forced
\* liquidation over the positions it loaded.
C29_LiquidationByNextTick ==
    [][(EnteredEmergencyStop /\ ev'.kind = "load" /\ ev'.task = "pos")
          => (pPc' = "liq" /\ pTick'.loaded = pSt'.positions)]_vars

----------------------------------------------------------------------------
\* SpecLive: the three loops over one open position when every load and every
\* save succeeds, each loop keeps ticking (the tokio intervals of main.rs:91,
\* 337 and 404 never end) and the close of the liquidation block, retried on
\* every tick, succeeds in the end.
Reliable == ev'.kind \notin {"loadErr", "saveErr"}
PosLiquidateOk == PosLiquidate /\ ev'.ok
NextLive ==
    \/ PosLoad /\ Reliable
    \/ PosLiquidate
    \/ PosLiqSave /\ Reliable
    \/ PosMonitor
    \/ PosSave /\ Reliable
    \/ MktLoad /\ Reliable
    \/ MktSave /\ Reliable
    \/ Housekeeping /\ Reliable
SpecLive ==
    /\ InitOne
    /\ [][NextLive]_vars
    /\ WF_vars(PosTask /\ Reliable)
    /\ WF_vars(MktTask /\ Reliable)
    /\ WF_vars(Housekeeping /\ Reliable)
    /\ SF_vars(PosLiquidateOk)

\* C30: once the file holds mode EmergencyStop, the open positions in the
\* file are eventually none and stay none.
C30_LiquidationCompletes ==
    (disk.kind = "file" /\ disk.st.risk.mode = "EmergencyStop")
        ~> [](DurableIds = {})

\* C31: no position has a second successful sale: a step in which an exit
\* swap or a liquidation close succeeds (and, for an exit, its P&L is
\* registered) is never for an id whose sale had already succeeded, whether
\* or not the save after that sale was written.
C31_SoldAtMostOnce ==
    [][(\/ ev'.kind = "exitOk"
        \/ ev'.kind = "liquidate" /\ ev'.ok) => ev'.id \notin pTick.sold]_vars

\* C32: a turn of the liquidation loop leaves the risk state of the tick
\* (daily realized P&L, current and starting balance, day key, mode) and the
\* snapshot's mode as they were and at most removes the position it closed,
\* and the save after the loop writes that same risk state.
C32_LiquidationKeepsRisk ==
    [][/\ ev'.kind = "liquidate" =>
            /\ pSt'.risk = pSt.risk
            /\ pSt'.mode = pSt.mode
            /\ pSt'.version = pSt.version
            /\ pSt'.positions = (IF ev'.ok THEN RemoveAt(pSt.positions, pIdx)
                                            ELSE pSt.positions)
       /\ (pPc = "liq" /\ ev'.kind = "save" /\ ev'.task = "pos") =>
            /\ disk'.st.risk = pSt.risk
            /\ disk'.st.mode = pSt.mode
            /\ pSt' = pSt
      ]_vars

\* C32's case: both positions of an EmergencyStop snapshot have been closed
\* by the liquidation loop, which has not saved yet.
C32_Witness ==
    /\ pPc = "liq"
    /\ ev.kind = "liquidate"
    /\ ev.ok
    /\ Len(pTick.liq) = 2
    /\ pTick.closed = {1, 2}
    /\ pSt.positions = <<>>
    /\ pSt.risk.mode = "EmergencyStop"
    /\ pSt.risk = disk.st.risk

====
